---- MODULE Spec2Model ----
(***************************************************************************)
(* Model of python-services/rppg_service.py: the per-connection WebSocket  *)
(* handler websocket_endpoint, its frame buffer, its frame counter, the    *)
(* cadence gate in front of the rPPG model and the reports it sends.       *)
(* All connection handlers are coroutines of one asyncio event loop.       *)
(***************************************************************************)
EXTENDS Integers, Sequences, FiniteSets, TLC

\* ------------------------------------------------------------------------
\* Bounds of the model (not program constants)
\* ------------------------------------------------------------------------
\* cap on frame_count of a connection explored by Spec
MaxFrames == 330
\* cap on frame_count of connection 1 explored by SpecHub
MaxHubFrames == 151
\* cap on frame_count of the other connections explored by SpecHub
MaxPeerFrames == 2
\* SpecHub sends start/stop only while frame_count is at most this
MaxHubCmdAt == 1
\* cap on frame_count of a connection explored by SpecLong and SpecLive
MaxLongFrames == 460

\* ------------------------------------------------------------------------
\* Program constants
\* ------------------------------------------------------------------------
\* frame_count % 30
REPORT_INTERVAL == 30
\* len(frame_buffer) >= 150
MIN_WINDOW == 150
\* frame_buffer[-300:]
WINDOW_FOR_ESTIMATE == 300
\* len(frame_buffer) / 450
FULL_WINDOW == 450
\* the retention cap of the buffer: the window the Estimator is given
MAX_WINDOW == WINDOW_FOR_ESTIMATE

\* the connections served by the one event loop
Conns == {1, 2}

VARIABLES
    pc,            \* per connection: "closed", "recv" (awaiting receive_text), "estimating"
    frame_buffer,  \* per connection: the local list frame_buffer
    frame_count,   \* per connection: the local counter frame_count
    frames_array,  \* per connection: the Estimator input of the call in flight
    out,           \* per connection: reports sent while handling the latest message
    last,          \* per connection: how the latest message was handled
    run,           \* per connection: "new", "running" (since a start), "stopped" (since a stop)
    valid_run,     \* per connection: a start followed only by valid frames
    appended,      \* per connection: frames appended since the buffer was last cleared
    stop_pending,  \* per connection: a stop sits unread in the socket (sent during an Estimator call)
    reset_pair,    \* per connection: the latest two messages were a start, then a stop
    final_sends    \* per connection: send attempts of the handler's last-resort except branch

vars == <<pc, frame_buffer, frame_count, frames_array, out, last, run, valid_run,
          appended, stop_pending, reset_pair, final_sends>>

\* ------------------------------------------------------------------------
\* Pure helpers
\* ------------------------------------------------------------------------
Min(a, b) == IF a < b THEN a ELSE b

\* fault: seq[:n], the first n elements
LastN_First(s, n) == IF Len(s) <= n THEN s ELSE SubSeq(s, 1, n)

\* fault: no slice, the whole list
LastN_All(s, n) == s

\* Python's seq[-n:] : the last n elements, or all of them if there are fewer
LastN(s, n) == IF Len(s) <= n THEN s ELSE SubSeq(s, Len(s) - n + 1, Len(s))

\* ------------------------------------------------------------------------
\* Inbound messages
\* ------------------------------------------------------------------------
\* the body of a "frame" value once any prefix is split off
Bodies == {"empty", "bad_padding", "not_image", "image"}

\* a "frame" value: absent/null, a non-string, or a string with or without
\* a "data:...;base64," prefix before the body
Payloads == [type : {"absent", "number"}, prefix : {FALSE}, body : {"empty"}]
            \cup [type : {"string"}, prefix : BOOLEAN, body : Bodies]

\* Python truthiness of message.get("frame")
Truthy(p) == /\ p.type # "absent"
             /\ (p.type = "string" => (p.prefix \/ p.body # "empty"))

\* frame_data.split(',')[1] if ',' in frame_data else frame_data
StripPrefix(p) == IF p.type = "string" THEN p.body ELSE "raise"

\* base64.b64decode
B64Decode(body) == CASE body = "raise"       -> "raise"
                     [] body = "bad_padding" -> "raise"
                     [] body = "empty"       -> "no_bytes"
                     [] body = "not_image"   -> "junk_bytes"
                     [] body = "image"       -> "image_bytes"

\* np.frombuffer + cv2.imdecode: an image only if the bytes encode one
ImDecode(bytes) == CASE bytes = "raise"       -> "raise"
                     [] bytes = "image_bytes" -> "frame"
                     [] OTHER                 -> "None"

\* lines 112-114 as a whole: "raise", "None" or "frame"
Decode(p) == ImDecode(B64Decode(StripPrefix(p)))

\* the picture the camera of connection c captures next, as imdecode
\* returns it (channel order BGR)
NextImage(c) == [conn |-> c, seq |-> frame_count[c] + 1, order |-> "BGR"]

\* cv2.cvtColor(frame, cv2.COLOR_BGR2RGB)
CvtColor(frame) == [frame EXCEPT !.order = IF @ = "BGR" THEN "RGB" ELSE "BGR"]

\* ------------------------------------------------------------------------
\* Outbound reports
\* ------------------------------------------------------------------------
NoProgress == -1

Report(status, hr, confidence, progress) ==
    [status |-> status, hr |-> hr, confidence |-> confidence, progress |-> progress]

StartedReport == Report("started", "absent", "absent", NoProgress)
StoppedReport == Report("stopped", "absent", "absent", NoProgress)
ErrorReport   == Report("error", "absent", "absent", NoProgress)

\* fault: progress measured against the 300-frame window
ProgressX_Window(len) ==
    Min(100 * FULL_WINDOW, (100 * len * FULL_WINDOW) \div WINDOW_FOR_ESTIMATE)

\* min(100, (len(frame_buffer) / 450) * 100), kept exact as 450 times the value
ProgressX(len) == Min(100 * FULL_WINDOW, 100 * len)

\* progress < 33
BelowThird(len) == ProgressX(len) < 33 * FULL_WINDOW

\* round(progress, 1), in tenths of a percent (no value is a tie)
RoundedProgress(len) == (2 * 10 * ProgressX(len) + FULL_WINDOW) \div (2 * FULL_WINDOW)

ProgressReport(len) ==
    Report(IF BelowThird(len) THEN "calibrating" ELSE "measuring",
           "absent", "absent", RoundedProgress(len))

\* hr is "value" or "null" (round(hr, 1) if hr else None)
EstimateReport(hr, len) == Report("measuring", hr, "present", ProgressX(len))

\* fault: the gate opens when either condition holds
CadenceGate_Either(count, len) == count % REPORT_INTERVAL = 0 \/ len >= MIN_WINDOW

\* fault: the gate needs more than MIN_WINDOW frames
CadenceGate_Strict(count, len) == count % REPORT_INTERVAL = 0 /\ len > MIN_WINDOW

\* fault: the gate looks at the count only
CadenceGate_CountOnly(count, len) == count % REPORT_INTERVAL = 0

\* frame_count % 30 == 0 and len(frame_buffer) >= 150
CadenceGate(count, len) == count % REPORT_INTERVAL = 0 /\ len >= MIN_WINDOW

\* ------------------------------------------------------------------------
\* The event loop: a coroutine runs only when no other coroutine is inside
\* a synchronous call
\* ------------------------------------------------------------------------
LoopFree(c) == \A d \in Conns \ {c} : pc[d] # "estimating"

\* the coroutine of c is resumed at its await of receive_text
Resumed(c) == pc[c] = "recv" /\ LoopFree(c)

\* ... and the message it reads is one sent just now (none was left unread)
Receiving(c) == Resumed(c) /\ ~stop_pending[c]

Init ==
    /\ pc = [c \in Conns |-> "closed"]
    /\ frame_buffer = [c \in Conns |-> <<>>]
    /\ frame_count = [c \in Conns |-> 0]
    /\ frames_array = [c \in Conns |-> <<>>]
    /\ out = [c \in Conns |-> <<>>]
    /\ last = [c \in Conns |-> "none"]
    /\ run = [c \in Conns |-> "new"]
    /\ valid_run = [c \in Conns |-> FALSE]
    /\ appended = [c \in Conns |-> 0]
    /\ stop_pending = [c \in Conns |-> FALSE]
    /\ reset_pair = [c \in Conns |-> FALSE]
    /\ final_sends = [c \in Conns |-> 0]

\* websocket.accept() and the handler's locals
Accept(c) ==
    /\ pc[c] = "closed"
    /\ LoopFree(c)
    /\ pc' = [pc EXCEPT ![c] = "recv"]
    /\ frame_buffer' = [frame_buffer EXCEPT ![c] = <<>>]
    /\ frame_count' = [frame_count EXCEPT ![c] = 0]
    /\ frames_array' = [frames_array EXCEPT ![c] = <<>>]
    /\ out' = [out EXCEPT ![c] = <<>>]
    /\ last' = [last EXCEPT ![c] = "accept"]
    /\ run' = [run EXCEPT ![c] = "new"]
    /\ valid_run' = [valid_run EXCEPT ![c] = FALSE]
    /\ appended' = [appended EXCEPT ![c] = 0]
    /\ stop_pending' = [stop_pending EXCEPT ![c] = FALSE]
    /\ reset_pair' = [reset_pair EXCEPT ![c] = FALSE]
    /\ final_sends' = [final_sends EXCEPT ![c] = 0]

\* fault: start clears the buffer but keeps the count
Start_KeepsCount(c) ==
    /\ Receiving(c)
    /\ frame_buffer' = [frame_buffer EXCEPT ![c] = <<>>]
    /\ out' = [out EXCEPT ![c] = <<StartedReport>>]
    /\ last' = [last EXCEPT ![c] = "start"]
    /\ run' = [run EXCEPT ![c] = "running"]
    /\ valid_run' = [valid_run EXCEPT ![c] = TRUE]
    /\ appended' = [appended EXCEPT ![c] = 0]
    /\ reset_pair' = [reset_pair EXCEPT ![c] = FALSE]
    /\ UNCHANGED <<pc, frame_count, frames_array, stop_pending, final_sends>>

\* {"action": "start"}
Start(c) ==
    /\ Receiving(c)
    /\ frame_buffer' = [frame_buffer EXCEPT ![c] = <<>>]
    /\ frame_count' = [frame_count EXCEPT ![c] = 0]
    /\ out' = [out EXCEPT ![c] = <<StartedReport>>]
    /\ last' = [last EXCEPT ![c] = "start"]
    /\ run' = [run EXCEPT ![c] = "running"]
    /\ valid_run' = [valid_run EXCEPT ![c] = TRUE]
    /\ appended' = [appended EXCEPT ![c] = 0]
    /\ reset_pair' = [reset_pair EXCEPT ![c] = FALSE]
    /\ UNCHANGED <<pc, frames_array, stop_pending, final_sends>>

\* {"action": "stop"}
Stop(c) ==
    /\ Resumed(c)
    /\ frame_buffer' = [frame_buffer EXCEPT ![c] = <<>>]
    /\ out' = [out EXCEPT ![c] = <<StoppedReport>>]
    /\ last' = [last EXCEPT ![c] = "stop"]
    /\ run' = [run EXCEPT ![c] = "stopped"]
    /\ valid_run' = [valid_run EXCEPT ![c] = FALSE]
    /\ appended' = [appended EXCEPT ![c] = 0]
    /\ stop_pending' = [stop_pending EXCEPT ![c] = FALSE]
    /\ reset_pair' = [reset_pair EXCEPT ![c] = (last[c] = "start")]
    /\ UNCHANGED <<pc, frame_count, frames_array, final_sends>>

\* a message without a truthy "frame" (and without a start/stop action): continue
FrameSkip(c) ==
    /\ Receiving(c)
    /\ \E p \in Payloads : ~Truthy(p)
    /\ out' = [out EXCEPT ![c] = <<>>]
    /\ last' = [last EXCEPT ![c] = "skip"]
    /\ valid_run' = [valid_run EXCEPT ![c] = FALSE]
    /\ reset_pair' = [reset_pair EXCEPT ![c] = FALSE]
    /\ UNCHANGED <<pc, frame_buffer, frame_count, frames_array, run,
                   appended, stop_pending, final_sends>>

\* fault: a frame that fails to decode is counted all the same
FrameError_Counted(c) ==
    /\ Receiving(c)
    /\ \E p \in Payloads : Truthy(p) /\ Decode(p) \in {"None", "raise"}
    /\ frame_count' = [frame_count EXCEPT ![c] = @ + 1]
    /\ out' = [out EXCEPT ![c] = <<ErrorReport>>]
    /\ last' = [last EXCEPT ![c] = "decode_error"]
    /\ valid_run' = [valid_run EXCEPT ![c] = FALSE]
    /\ reset_pair' = [reset_pair EXCEPT ![c] = FALSE]
    /\ UNCHANGED <<pc, frame_buffer, frames_array, run,
                   appended, stop_pending, final_sends>>

\* a frame that imdecode rejects (None) or whose decoding raises
FrameError(c) ==
    /\ Receiving(c)
    /\ \E p \in Payloads : Truthy(p) /\ Decode(p) \in {"None", "raise"}
    /\ out' = [out EXCEPT ![c] = <<ErrorReport>>]
    /\ last' = [last EXCEPT ![c] = "decode_error"]
    /\ valid_run' = [valid_run EXCEPT ![c] = FALSE]
    /\ reset_pair' = [reset_pair EXCEPT ![c] = FALSE]
    /\ UNCHANGED <<pc, frame_buffer, frame_count, frames_array, run,
                   appended, stop_pending, final_sends>>

\* fault: frame_buffer is one list shared by all handlers
FrameOk_SharedBuffer(c) ==
    /\ Receiving(c)
    /\ \E p \in Payloads : Truthy(p) /\ Decode(p) = "frame"
    /\ LET buf == Append(frame_buffer[c], CvtColor(NextImage(c)))
           cnt == frame_count[c] + 1
       IN /\ frame_buffer' = [d \in Conns |->
                                 Append(frame_buffer[d], CvtColor(NextImage(c)))]
          /\ frame_count' = [frame_count EXCEPT ![c] = cnt]
          /\ IF CadenceGate(cnt, Len(buf))
             THEN /\ frames_array' = [frames_array EXCEPT ![c] = LastN(buf, WINDOW_FOR_ESTIMATE)]
                  /\ pc' = [pc EXCEPT ![c] = "estimating"]
                  /\ out' = [out EXCEPT ![c] = <<>>]
                  /\ last' = [last EXCEPT ![c] = "estimate_call"]
             ELSE /\ out' = [out EXCEPT ![c] = <<ProgressReport(Len(buf))>>]
                  /\ last' = [last EXCEPT ![c] = "progress"]
                  /\ UNCHANGED <<pc, frames_array>>
    /\ appended' = [appended EXCEPT ![c] = @ + 1]
    /\ reset_pair' = [reset_pair EXCEPT ![c] = FALSE]
    /\ UNCHANGED <<run, valid_run, stop_pending, final_sends>>

\* a frame that decodes: append, count, then the Estimator call or a progress report
FrameOk(c) ==
    /\ Receiving(c)
    /\ \E p \in Payloads : Truthy(p) /\ Decode(p) = "frame"
    /\ LET buf == Append(frame_buffer[c], CvtColor(NextImage(c)))
           cnt == frame_count[c] + 1
       IN /\ frame_buffer' = [frame_buffer EXCEPT ![c] = buf]
          /\ frame_count' = [frame_count EXCEPT ![c] = cnt]
          /\ IF CadenceGate(cnt, Len(buf))
             THEN /\ frames_array' = [frames_array EXCEPT ![c] = LastN(buf, WINDOW_FOR_ESTIMATE)]
                  /\ pc' = [pc EXCEPT ![c] = "estimating"]
                  /\ out' = [out EXCEPT ![c] = <<>>]
                  /\ last' = [last EXCEPT ![c] = "estimate_call"]
             ELSE /\ out' = [out EXCEPT ![c] = <<ProgressReport(Len(buf))>>]
                  /\ last' = [last EXCEPT ![c] = "progress"]
                  /\ UNCHANGED <<pc, frames_array>>
    /\ appended' = [appended EXCEPT ![c] = @ + 1]
    /\ reset_pair' = [reset_pair EXCEPT ![c] = FALSE]
    /\ UNCHANGED <<run, valid_run, stop_pending, final_sends>>

\* process_video_tensor returns: the result is sent
EstimatorReturn(c) ==
    /\ pc[c] = "estimating"
    /\ \E hr \in {"value", "null"} :
          out' = [out EXCEPT ![c] = <<EstimateReport(hr, Len(frame_buffer[c]))>>]
    /\ pc' = [pc EXCEPT ![c] = "recv"]
    /\ frames_array' = [frames_array EXCEPT ![c] = <<>>]
    /\ last' = [last EXCEPT ![c] = "estimate_ok"]
    /\ UNCHANGED <<frame_buffer, frame_count, run, valid_run,
                   appended, stop_pending, reset_pair, final_sends>>

\* fault: a failed Estimator call drops the frames collected so far
EstimatorRaise_Clears(c) ==
    /\ pc[c] = "estimating"
    /\ out' = [out EXCEPT ![c] = <<ErrorReport>>]
    /\ pc' = [pc EXCEPT ![c] = "recv"]
    /\ frame_buffer' = [frame_buffer EXCEPT ![c] = <<>>]
    /\ frames_array' = [frames_array EXCEPT ![c] = <<>>]
    /\ last' = [last EXCEPT ![c] = "estimate_error"]
    /\ UNCHANGED <<frame_count, run, valid_run,
                   appended, stop_pending, reset_pair, final_sends>>

\* process_video_tensor (or the handling of its result) raises
EstimatorRaise(c) ==
    /\ pc[c] = "estimating"
    /\ out' = [out EXCEPT ![c] = <<ErrorReport>>]
    /\ pc' = [pc EXCEPT ![c] = "recv"]
    /\ frames_array' = [frames_array EXCEPT ![c] = <<>>]
    /\ last' = [last EXCEPT ![c] = "estimate_error"]
    /\ UNCHANGED <<frame_buffer, frame_count, run, valid_run,
                   appended, stop_pending, reset_pair, final_sends>>

\* the client sends {"action": "stop"} while the coroutine is inside
\* process_video_tensor: the message waits in the socket
StopArrives(c) ==
    /\ pc[c] = "estimating"
    /\ ~stop_pending[c]
    /\ stop_pending' = [stop_pending EXCEPT ![c] = TRUE]
    /\ UNCHANGED <<pc, frame_buffer, frame_count, frames_array, out, last, run,
                   valid_run, appended, reset_pair, final_sends>>

\* the handler returns: its locals are gone
Closed(c, how, reports, tries) ==
    /\ pc' = [pc EXCEPT ![c] = "closed"]
    /\ frame_buffer' = [frame_buffer EXCEPT ![c] = <<>>]
    /\ frame_count' = [frame_count EXCEPT ![c] = 0]
    /\ out' = [out EXCEPT ![c] = reports]
    /\ last' = [last EXCEPT ![c] = how]
    /\ run' = [run EXCEPT ![c] = "new"]
    /\ valid_run' = [valid_run EXCEPT ![c] = FALSE]
    /\ appended' = [appended EXCEPT ![c] = 0]
    /\ stop_pending' = [stop_pending EXCEPT ![c] = FALSE]
    /\ reset_pair' = [reset_pair EXCEPT ![c] = FALSE]
    /\ final_sends' = [final_sends EXCEPT ![c] = tries]
    /\ UNCHANGED frames_array

\* fault: the handler ends without trying a last report
Malformed_Silent(c) ==
    /\ Receiving(c)
    /\ Closed(c, "malformed", <<>>, 0)

\* text that is not JSON (json.loads raises) or JSON that is not an object
\* (message.get raises): one last report is tried, then the handler ends
Malformed(c) ==
    /\ Receiving(c)
    /\ \E sent \in BOOLEAN :
          Closed(c, "malformed", IF sent THEN <<ErrorReport>> ELSE <<>>, 1)

\* receive_text raises WebSocketDisconnect
Disconnect(c) ==
    /\ Receiving(c)
    /\ Closed(c, "disconnect", <<>>, 0)

\* ------------------------------------------------------------------------
\* One connection, any sequence of messages
\* ------------------------------------------------------------------------
Solo == 1

Next ==
    \/ Accept(Solo)
    \/ Start(Solo)
    \/ Stop(Solo)
    \/ FrameSkip(Solo)
    \/ FrameError(Solo)
    \/ (frame_count[Solo] < MaxFrames /\ FrameOk(Solo))
    \/ EstimatorReturn(Solo)
    \/ EstimatorRaise(Solo)
    \/ StopArrives(Solo)
    \/ Malformed(Solo)
    \/ Disconnect(Solo)

Spec == Init /\ [][Next]_vars

\* ------------------------------------------------------------------------
\* All connections on the one event loop; commands arrive early in a run
\* and the peers of connection 1 send few frames
\* ------------------------------------------------------------------------
HubFrameCap(c) == IF c = Solo THEN MaxHubFrames ELSE MaxPeerFrames

NextHub ==
    \E c \in Conns :
        \/ Accept(c)
        \/ (frame_count[c] <= MaxHubCmdAt /\ Start(c))
        \/ (frame_count[c] <= MaxHubCmdAt /\ Stop(c))
        \/ FrameSkip(c)
        \/ FrameError(c)
        \/ (frame_count[c] < HubFrameCap(c) /\ FrameOk(c))
        \/ EstimatorReturn(c)
        \/ EstimatorRaise(c)
        \/ StopArrives(c)
        \/ Malformed(c)
        \/ Disconnect(c)

SpecHub == Init /\ [][NextHub]_vars

\* ------------------------------------------------------------------------
\* One connection that never sends stop: long uninterrupted runs
\* ------------------------------------------------------------------------
\* the coroutine takes the message that is there for it
MessageHandled(c) ==
    \/ Start(c)
    \/ FrameSkip(c)
    \/ FrameError(c)
    \/ (frame_count[c] < MaxLongFrames /\ FrameOk(c))
    \/ Malformed(c)
    \/ Disconnect(c)

NextLong ==
    \/ Accept(Solo)
    \/ MessageHandled(Solo)
    \/ EstimatorReturn(Solo)
    \/ EstimatorRaise(Solo)

SpecLong == Init /\ [][NextLong]_vars

\* The event loop resumes a coroutine whose message is there.  Nothing
\* makes process_video_tensor return: the call has no timeout.
SpecLive == SpecLong /\ WF_vars(Accept(Solo)) /\ WF_vars(MessageHandled(Solo))

\* ------------------------------------------------------------------------
\* Vocabulary of the properties
\* ------------------------------------------------------------------------
\* the latest message of c was a frame message and its handling is over
FrameKinds == {"skip", "decode_error", "progress", "estimate_ok", "estimate_error"}

\* this step is connection c taking a message off its socket
Received(c) ==
    /\ pc[c] = "recv"
    /\ <<pc[c], frame_buffer[c], frame_count[c], out[c], last[c]>>
         # <<pc'[c], frame_buffer'[c], frame_count'[c], out'[c], last'[c]>>

\* this step is connection c handling a frame message
FrameStep(c) ==
    /\ Received(c)
    /\ last'[c] \in {"skip", "decode_error", "progress", "estimate_call"}

\* a report without hr: a progress-only report
IsProgressOnly(r) ==
    /\ r.status \in {"calibrating", "measuring"}
    /\ r.hr = "absent"
    /\ r.progress # NoProgress

\* a report of an estimation cycle
IsReading(r) ==
    /\ r.status = "measuring"
    /\ r.hr # "absent"
    /\ r.confidence # "absent"

\* ------------------------------------------------------------------------
\* C1: in every reachable state the frame buffer of a session holds at most
\* MAX_WINDOW (300) frames.
\* ------------------------------------------------------------------------
C1_BufferCap == \A c \in Conns : Len(frame_buffer[c]) <= MAX_WINDOW

\* ------------------------------------------------------------------------
\* C2: once a decoded frame is appended and counted, the Estimator is
\* invoked in that cycle if and only if frame_count is a multiple of 30 and
\* the buffer holds at least 150 frames; every other cycle makes no call
\* and emits one progress-only report.
\* ------------------------------------------------------------------------
C2_CadenceGate ==
    \A c \in Conns :
        last[c] \in {"progress", "estimate_call"} =>
            /\ last[c] = "estimate_call"
                 <=> (frame_count[c] % 30 = 0 /\ Len(frame_buffer[c]) >= 150)
            /\ last[c] = "estimate_call"
                 => (pc[c] = "estimating" /\ out[c] = <<>> /\ frames_array[c] # <<>>)
            /\ last[c] = "progress"
                 => /\ pc[c] = "recv"
                    /\ frames_array[c] = <<>>
                    /\ Len(out[c]) = 1
                    /\ IsProgressOnly(out[c][1])

\* the gate fired with a count that is ahead of the buffer (a stop came before)
C2_Witness ==
    /\ last[Solo] = "estimate_call"
    /\ frame_count[Solo] > Len(frame_buffer[Solo])

\* ------------------------------------------------------------------------
\* C3 as stated: after a start followed only by valid frames, each of the
\* first 149 frames yields exactly one progress-only report and no
\* Estimator call, and the 150th yields one Estimator call and one report
\* that carries hr and confidence.
\* ------------------------------------------------------------------------
C3_First149(c) ==
    frame_count[c] \in 1..149 =>
        /\ pc[c] = "recv"
        /\ last[c] = "progress"
        /\ Len(out[c]) = 1
        /\ IsProgressOnly(out[c][1])

C3_Call150(c) ==
    (frame_count[c] = 150 /\ pc[c] = "estimating") =>
        (last[c] = "estimate_call" /\ Len(frames_array[c]) = 150)

C3_Original ==
    \A c \in Conns :
        valid_run[c] =>
            /\ C3_First149(c)
            /\ C3_Call150(c)
            /\ (frame_count[c] = 150 /\ pc[c] = "recv") =>
                   (last[c] = "estimate_ok" /\ Len(out[c]) = 1 /\ IsReading(out[c][1]))

\* C3 as amended: the report of the 150th frame carries hr and confidence
\* when the Estimator call returns, and is one error report when it fails.
C3_Amended ==
    \A c \in Conns :
        valid_run[c] =>
            /\ C3_First149(c)
            /\ C3_Call150(c)
            /\ (frame_count[c] = 150 /\ pc[c] = "recv") =>
                   \/ (last[c] = "estimate_ok" /\ Len(out[c]) = 1 /\ IsReading(out[c][1]))
                   \/ (last[c] = "estimate_error" /\ out[c] = <<ErrorReport>>)

C3_Witness ==
    /\ valid_run[Solo]
    /\ frame_count[Solo] = 150
    /\ last[Solo] = "estimate_ok"

\* ------------------------------------------------------------------------
\* C4: right after a start command, and right after a stop command,
\* frame_count is 0 and the buffer is empty.
\* ------------------------------------------------------------------------
C4_ResetOnCommand ==
    \A c \in Conns :
        last[c] \in {"start", "stop"} =>
            (frame_count[c] = 0 /\ frame_buffer[c] = <<>>)

\* ------------------------------------------------------------------------
\* C5: between a stop and the next start a frame message is ignored: no
\* report, no append, no change of frame_count, no Estimator call.
\* ------------------------------------------------------------------------
C5_IdleIgnoresFrames ==
    [][\A c \in Conns :
          (run[c] = "stopped" /\ FrameStep(c)) =>
              /\ out'[c] = <<>>
              /\ frame_buffer'[c] = frame_buffer[c]
              /\ frame_count'[c] = frame_count[c]
              /\ pc'[c] # "estimating"]_vars

\* ------------------------------------------------------------------------
\* C6: a frame whose decode fails yields one error report and leaves
\* frame_count, the buffer and the session state as they were; the next
\* valid frame is appended and counted as if the failed one never came.
\* ------------------------------------------------------------------------
C6_DecodeErrorIsolated ==
    [][\A c \in Conns :
          /\ (Received(c) /\ last'[c] = "decode_error") =>
                 /\ out'[c] = <<ErrorReport>>
                 /\ frame_buffer'[c] = frame_buffer[c]
                 /\ frame_count'[c] = frame_count[c]
                 /\ pc'[c] = "recv"
                 /\ run'[c] = run[c]
          /\ (last[c] = "decode_error" /\ Received(c)
                /\ last'[c] \in {"progress", "estimate_call"}) =>
                 /\ Len(frame_buffer'[c]) = Len(frame_buffer[c]) + 1
                 /\ SubSeq(frame_buffer'[c], 1, Len(frame_buffer[c])) = frame_buffer[c]
                 /\ frame_count'[c] = frame_count[c] + 1]_vars

\* a decode failure in the middle of a stream
C6_Witness ==
    /\ last[Solo] = "decode_error"
    /\ Len(frame_buffer[Solo]) = 7
    /\ frame_count[Solo] = 7

\* ------------------------------------------------------------------------
\* C7: when the Estimator fails the session emits one error report, buffer
\* and frame_count are what they were when the Estimator was invoked, the
\* session goes on receiving, and a later cycle that passes the gate hands
\* the Estimator the retained frames again.
\* ------------------------------------------------------------------------
C7_EstimatorFailureKeepsState ==
    [][\A c \in Conns :
          /\ (pc[c] = "estimating" /\ last'[c] = "estimate_error") =>
                 /\ out'[c] = <<ErrorReport>>
                 /\ frame_buffer'[c] = frame_buffer[c]
                 /\ frame_count'[c] = frame_count[c]
                 /\ pc'[c] = "recv"
                 /\ run'[c] = run[c]
          /\ (last[c] = "estimate_error" /\ FrameStep(c)
                /\ last'[c] \in {"progress", "estimate_call"}) =>
                        /\ SubSeq(frame_buffer'[c], 1, Len(frame_buffer[c])) = frame_buffer[c]
                        /\ frame_count'[c] = frame_count[c] + 1
          /\ (Received(c) /\ pc'[c] = "estimating") =>
                 /\ frames_array'[c] = LastN(frame_buffer'[c], 300)
                 /\ SubSeq(frame_buffer'[c], 1, Len(frame_buffer[c])) = frame_buffer[c]]_vars

\* the Estimator failed on a cycle after the first one
C7_Witness ==
    /\ last[Solo] = "estimate_error"
    /\ frame_count[Solo] = 180
    /\ Len(frame_buffer[Solo]) = 180

\* ------------------------------------------------------------------------
\* C8: every frame message received while a measurement is running yields
\* a status report, an empty or missing payload included.
\* ------------------------------------------------------------------------
C8_EveryFrameReported ==
    \A c \in Conns :
        (run[c] = "running" /\ last[c] \in FrameKinds) => Len(out[c]) >= 1

\* ------------------------------------------------------------------------
\* C9: a malformed inbound message is not fatal: the message loop keeps
\* running and buffer and frame_count are unchanged.
\* ------------------------------------------------------------------------
C9_MalformedNotFatal ==
    [][\A c \in Conns :
          (Received(c) /\ last'[c] = "malformed") =>
              /\ pc'[c] = "recv"
              /\ frame_buffer'[c] = frame_buffer[c]
              /\ frame_count'[c] = frame_count[c]]_vars

\* ------------------------------------------------------------------------
\* C10: while the Estimator call of one session is in flight, every other
\* session that awaits a message can still take one.
\* ------------------------------------------------------------------------
C10_PeersNotBlocked ==
    \A a \in Conns : \A b \in Conns \ {a} :
        (pc[a] = "estimating" /\ pc[b] = "recv") => ENABLED Start(b)

\* ------------------------------------------------------------------------
\* C11: an Estimator invocation, even one that never returns, does not
\* stall its session forever: the session always gets back to awaiting the
\* next inbound message.
\* ------------------------------------------------------------------------
C11_EstimatorCallBounded ==
    \A c \in Conns : (pc[c] = "estimating") ~> (pc[c] = "recv")

\* ------------------------------------------------------------------------
\* C12: after a session-level fault the buffer is cleared and the
\* connection stays open: a start command is still taken and answered.
\* ------------------------------------------------------------------------
C12_FaultLeavesConnectionOpen ==
    \A c \in Conns :
        last[c] = "malformed" =>
            /\ frame_buffer[c] = <<>>
            /\ pc[c] = "recv"
            /\ ENABLED Start(c)

\* ------------------------------------------------------------------------
\* C13: whenever the Estimator is invoked its input is exactly the most
\* recent min(300, n) decoded frames, n being the number of frames appended
\* since the buffer was last cleared, in arrival order, and the buffer
\* still holds all n frames.
\* ------------------------------------------------------------------------
\* the frame of connection c that was counted as number k
Arrived(c, k) == [conn |-> c, seq |-> k, order |-> "RGB"]

C13_SnapshotIsRecentWindow ==
    \A c \in Conns :
        pc[c] = "estimating" =>
            LET n == appended[c]
                k == IF n < 300 THEN n ELSE 300
            IN /\ Len(frames_array[c]) = k
               /\ \A i \in 1..k :
                      frames_array[c][i] = Arrived(c, frame_count[c] - k + i)
               /\ Len(frame_buffer[c]) = n
               /\ \A i \in 1..n :
                      frame_buffer[c][i] = Arrived(c, frame_count[c] - n + i)

\* an invocation with more than 300 frames in the buffer
C13_Witness ==
    /\ pc[Solo] = "estimating"
    /\ appended[Solo] = 330
    /\ Len(frames_array[Solo]) = 300

\* ------------------------------------------------------------------------
\* C14: a step of one session leaves the buffer and the frame count of
\* every other session unchanged, and the Estimator input of a session
\* holds only frames sent on its own connection.
\* ------------------------------------------------------------------------
\* this step changes something of connection a
StepOf(a) ==
    <<pc[a], frame_buffer[a], frame_count[a], frames_array[a], out[a], last[a],
      stop_pending[a]>>
      # <<pc'[a], frame_buffer'[a], frame_count'[a], frames_array'[a], out'[a],
          last'[a], stop_pending'[a]>>

C14_SessionsIsolated ==
    [][\A a \in Conns : \A b \in Conns \ {a} :
          /\ StepOf(a) =>
                 /\ frame_buffer'[b] = frame_buffer[b]
                 /\ frame_count'[b] = frame_count[b]
          /\ \A i \in 1..Len(frames_array'[b]) : frames_array'[b][i].conn = b
          /\ \A i \in 1..Len(frame_buffer'[b]) : frame_buffer'[b][i].conn = b]_vars

\* a session is inside its Estimator call while another one holds frames
C14_Witness ==
    /\ pc[Solo] = "estimating"
    /\ \E b \in Conns \ {Solo} : Len(frame_buffer[b]) >= 1 /\ frame_count[b] >= 1

\* ------------------------------------------------------------------------
\* C15: a stop that arrives while the session's Estimator call is in
\* flight takes effect without waiting for the call, and the result of the
\* call is discarded: no report with hr and confidence is sent for it.
\* ------------------------------------------------------------------------
C15_StopPreemptsEstimator ==
    \A c \in Conns :
        stop_pending[c] =>
            /\ ENABLED Stop(c)
            /\ \A i \in 1..Len(out[c]) : ~IsReading(out[c][i])

\* ------------------------------------------------------------------------
\* C16: a start followed immediately by a stop leaves the buffer empty and
\* frame_count equal to 0, whatever the session held before the start.
\* ------------------------------------------------------------------------
C16_StartThenStop ==
    \A c \in Conns :
        reset_pair[c] =>
            (Len(frame_buffer[c]) = 0 /\ frame_count[c] = 0)

\* the stop of such a pair has just been answered
C16_Witness ==
    /\ reset_pair[Solo]
    /\ last[Solo] = "stop"
    /\ out[Solo] = <<StoppedReport>>

\* ------------------------------------------------------------------------
\* C17 as stated: in every progress-only report the progress value is
\* min(100, 100 * buffer length / 450), it lies in [0, 100], and the status
\* is calibrating exactly when the buffer holds at most 148 frames and
\* measuring when it holds 149 or more.
\* ------------------------------------------------------------------------
\* 450 times min(100, 100 * n / 450)
ExactProgressX(n) == IF 100 * n < 100 * 450 THEN 100 * n ELSE 100 * 450

C17_Labels(r, n) ==
    /\ r.progress >= 0
    /\ r.progress <= 1000
    /\ r.status = "calibrating" <=> n <= 148
    /\ r.status = "measuring" <=> n >= 149

\* the progress field is in tenths of a percent
C17_Original ==
    \A c \in Conns :
        last[c] = "progress" =>
            LET r == out[c][1]
                n == Len(frame_buffer[c])
            IN /\ 450 * r.progress = 10 * ExactProgressX(n)
               /\ C17_Labels(r, n)

\* C17 as amended: the progress value of the report is
\* min(100, 100 * buffer length / 450) rounded to one decimal place; the
\* rest as stated, and the reported value is below 33 exactly when the
\* status is calibrating.
C17_Amended ==
    \A c \in Conns :
        last[c] = "progress" =>
            LET r == out[c][1]
                n == Len(frame_buffer[c])
                d == 450 * r.progress - 10 * ExactProgressX(n)
            IN /\ 2 * d <= 450
               /\ 2 * d >= -450
               /\ C17_Labels(r, n)
               /\ r.status = "calibrating" <=> r.progress < 330

\* a progress-only report at the cap of 100
C17_Witness ==
    /\ last[Solo] = "progress"
    /\ Len(frame_buffer[Solo]) = 451
    /\ out[Solo][1].progress = 1000

\* ------------------------------------------------------------------------
\* C18: when a fault other than a connection drop ends the message loop
\* the handler tries exactly one last error report, a failure of that send
\* is swallowed and the handler ends; on a connection drop it tries none.
\* ------------------------------------------------------------------------
C18_LastResortReport ==
    \A c \in Conns :
        /\ last[c] = "malformed" =>
               /\ pc[c] = "closed"
               /\ final_sends[c] = 1
               /\ out[c] \in {<<ErrorReport>>, <<>>}
        /\ last[c] = "disconnect" =>
               /\ pc[c] = "closed"
               /\ final_sends[c] = 0
               /\ out[c] = <<>>

\* the last report was tried and its send failed
C18_Witness ==
    /\ last[Solo] = "malformed"
    /\ final_sends[Solo] = 1
    /\ out[Solo] = <<>>

\* ------------------------------------------------------------------------
\* C19: every Estimator invocation receives between 150 and 300 frames
\* inclusive, however long the session has run and whether or not a stop
\* came before the frames.
\* ------------------------------------------------------------------------
C19_EstimatorInputSize ==
    \A c \in Conns :
        pc[c] = "estimating" =>
            (Len(frames_array[c]) >= 150 /\ Len(frames_array[c]) <= 300)

\* an invocation after a stop, with more than 300 frames collected since
C19_Witness ==
    /\ pc[Solo] = "estimating"
    /\ run[Solo] = "stopped"
    /\ Len(frame_buffer[Solo]) > 300
    /\ Len(frames_array[Solo]) = 300

\* ------------------------------------------------------------------------
\* C20: whenever a report of an estimation cycle (status measuring, with hr
\* and confidence) is sent, the progress it carries is at least 33 and the
\* buffer is not short enough to be labelled calibrating.
\* ------------------------------------------------------------------------
\* the progress field of such a report is 450 times the percentage
C20_ReadingProgress ==
    \A c \in Conns : \A i \in 1..Len(out[c]) :
        IsReading(out[c][i]) =>
            /\ out[c][i].progress >= 33 * 450
            /\ out[c][i].progress <= 100 * 450
            /\ Len(frame_buffer[c]) >= 149

\* the estimation report with the least progress
C20_Witness ==
    /\ last[Solo] = "estimate_ok"
    /\ Len(frame_buffer[Solo]) = 150
    /\ IsReading(out[Solo][1])
====
